---- MODULE Spec2Model ----
(***************************************************************************)
(* Model of mdk_to_vscode.py: the Keil .uvprojx -> c_cpp_properties.json   *)
(* converter.                                                              *)
(*                                                                         *)
(* Text is modelled as a sequence of one-character strings, so that        *)
(* splitting, trimming and prefix stripping are computed character by      *)
(* character.  A JSON value is modelled by its parsed form:                *)
(*   - an object is a function from its keys to its values;                *)
(*   - a list that the code type-tests is the record [list |-> <<...>>];   *)
(*   - any other value the code type-tests is [scalar |-> ...].            *)
(* The keys "list" and "scalar" are reserved for these two tags.  A file   *)
(* holds a parsed value together with the way its text is laid out: "dump" *)
(* is the text json.dump(indent=4, ensure_ascii=False) produces, "other"   *)
(* is any other text of the same value.                                    *)
(***************************************************************************)
EXTENDS Integers, Sequences, FiniteSets, TLC

VARIABLES
    fs,        \* the file system: path of the document |-> its content
    last,      \* the last call made on the document, and the file system before it
    rep,       \* the last call repeated the call before it (same function, same arguments)
    byEnsure,  \* the document was created by ensure_vscode_c_cpp_properties
    pc,        \* position of main()
    args,      \* the command line of the run
    files,     \* the .uvprojx files of the source tree, in the order os.walk meets them
    locals,    \* main()'s uvprojx_path, config_name and data
    io,        \* the run's calls, reads and writes of the document, and the files before it
    text,      \* input of the text functions
    out        \* output of the text functions

vars == <<fs, last, rep, byEnsure, pc, args, files, locals, io, text, out>>

docVars == <<fs, last, rep, byEnsure>>
runVars == <<pc, args, files, locals, io>>
textVars == <<text, out>>

(***************************************************************************)
(* Bounds of the model.                                                    *)
(***************************************************************************)
MaxEntries == 2   \* entries in the configurations list of an initial document
MaxTextLen == 5   \* characters in an IncludePath / Define text
MaxPathLen == 6   \* characters in a path given to normalize_and_clean_path

(***************************************************************************)
(* JSON values.                                                            *)
(***************************************************************************)
JList(s) == [list |-> s]
JScalar(v) == [scalar |-> v]
IsList(v) == "list" \in DOMAIN v
IsDict(v) == DOMAIN v \cap {"list", "scalar"} = {}

\* d[k] = v, as Python's dict item assignment: the other keys keep their values.
SetItem(d, k, v) == [x \in DOMAIN d \cup {k} |-> IF x = k THEN v ELSE d[x]]

DocPath == "c_cpp_properties.json"
COMPILER_PATH == "C:/Users/25799/Documents/gcc-arm-none-eabi-10.3-2021.10/bin/arm-none-eabi-gcc.exe"

Exists(f, p) == p \in DOMAIN f
\* open(p, 'w') followed by json.dump(value, indent=4, ensure_ascii=False)
WriteJson(f, p, value) ==
    [x \in DOMAIN f \cup {p} |->
        IF x = p THEN [valid |-> TRUE, fmt |-> "dump", value |-> value] ELSE f[x]]

(***************************************************************************)
(* ensure_vscode_c_cpp_properties                                          *)
(***************************************************************************)
DefaultConfiguration ==
    [name |-> "Default",
     intelliSenseMode |-> "linux-gcc-arm",
     compilerPath |-> COMPILER_PATH,
     cStandard |-> "c99",
     cppStandard |-> "c++11",
     includePath |-> <<>>,
     defines |-> <<>>]

Template(create_default) ==
    [configurations |-> JList(IF create_default THEN <<DefaultConfiguration>> ELSE <<>>),
     version |-> 4]

\* A plausible bug: the template is written whenever a Default entry is asked for.
ensure_Overwrite(f, create_default) ==
    IF ~Exists(f, DocPath) \/ create_default
    THEN [fs |-> WriteJson(f, DocPath, Template(create_default)),
          wrote |-> TRUE, path |-> DocPath]
    ELSE [fs |-> f, wrote |-> FALSE, path |-> DocPath]

\* The call: the file system after it, whether the file was written, and the
\* path returned.
ensure_vscode_c_cpp_properties(f, create_default) ==
    IF ~Exists(f, DocPath)
    THEN [fs |-> WriteJson(f, DocPath, Template(create_default)),
          wrote |-> TRUE, path |-> DocPath]
    ELSE [fs |-> f, wrote |-> FALSE, path |-> DocPath]

(***************************************************************************)
(* update_c_cpp_properties                                                 *)
(***************************************************************************)
\* The loop over content['configurations']: the index of the first entry whose
\* name is config_name (found), none, or the exception config.get raises on an
\* entry that is not a dict (the loop stops at the first match, so an entry
\* after it is never looked at).
RECURSIVE ScanFrom(_, _, _)
ScanFrom(cfgs, config_name, i) ==
    IF i > Len(cfgs) THEN [kind |-> "none", idx |-> 0]
    ELSE IF ~IsDict(cfgs[i]) THEN [kind |-> "raise", idx |-> i]
    ELSE IF "name" \in DOMAIN cfgs[i] /\ cfgs[i].name = config_name
         THEN [kind |-> "found", idx |-> i]
    ELSE ScanFrom(cfgs, config_name, i + 1)

\* A plausible bug: the loop has no break, so the last match is kept.
RECURSIVE ScanLastFrom(_, _, _, _)
ScanLastFrom(cfgs, config_name, i, hit) ==
    IF i > Len(cfgs) THEN hit
    ELSE IF ~IsDict(cfgs[i]) THEN [kind |-> "raise", idx |-> i]
    ELSE IF "name" \in DOMAIN cfgs[i] /\ cfgs[i].name = config_name
         THEN ScanLastFrom(cfgs, config_name, i + 1, [kind |-> "found", idx |-> i])
    ELSE ScanLastFrom(cfgs, config_name, i + 1, hit)

FindConfig_Last(cfgs, config_name) ==
    ScanLastFrom(cfgs, config_name, 1, [kind |-> "none", idx |-> 0])

\* A plausible bug: the comparison never succeeds, so every merge appends.
FindConfig_Never(cfgs, config_name) ==
    IF \E i \in 1..Len(cfgs) : ~IsDict(cfgs[i])
    THEN [kind |-> "raise", idx |-> 0]
    ELSE [kind |-> "none", idx |-> 0]

FindConfig(cfgs, config_name) == ScanFrom(cfgs, config_name, 1)

NewConfig(config_name) ==
    [name |-> config_name,
     intelliSenseMode |-> "linux-gcc-arm",
     compilerPath |-> "arm-none-eabi-gcc",
     cStandard |-> "c99",
     cppStandard |-> "c++11"]

\* new_data.get(key, [])
GetList(new_data, key) == IF key \in DOMAIN new_data THEN new_data[key] ELSE <<>>

\* A plausible bug: the entry is rebuilt instead of updated in place.
SetLists_Rebuild(target, new_data) ==
    [name |-> target.name,
     includePath |-> GetList(new_data, "includePath"),
     defines |-> GetList(new_data, "defines")]

\* A plausible bug: the new lists are added to the ones already there.
SetLists_Extend(target, new_data) ==
    LET old(k) == IF k \in DOMAIN target THEN target[k] ELSE <<>>
    IN SetItem(SetItem(target, "includePath",
                       old("includePath") \o GetList(new_data, "includePath")),
               "defines", old("defines") \o GetList(new_data, "defines"))

\* target_config['includePath'] = ...; target_config['defines'] = ...
SetLists(target, new_data) ==
    SetItem(SetItem(target, "includePath", GetList(new_data, "includePath")),
            "defines", GetList(new_data, "defines"))

\* A plausible bug: a document without a configurations list is given one.
LoadDocument_Default(f, output_filepath) ==
    IF ~Exists(f, output_filepath) THEN [status |-> "missing", content |-> <<>>]
    ELSE IF ~f[output_filepath].valid THEN [status |-> "badjson", content |-> <<>>]
    ELSE LET content == f[output_filepath].value
         IN IF ~IsDict(content) THEN [status |-> "nolist", content |-> <<>>]
            ELSE IF "configurations" \notin DOMAIN content
                    \/ ~IsList(content.configurations)
                 THEN [status |-> "ok",
                       content |-> SetItem(content, "configurations", JList(<<>>))]
            ELSE [status |-> "ok", content |-> content]

\* The existence test, json.load and the test of the configurations list.  A
\* top-level value that is not an object either has no 'configurations' member
\* (the early return) or raises on the membership test or the subscript (the
\* except branch): nothing is loaded either way.
LoadDocument(f, output_filepath) ==
    IF ~Exists(f, output_filepath) THEN [status |-> "missing", content |-> <<>>]
    ELSE IF ~f[output_filepath].valid THEN [status |-> "badjson", content |-> <<>>]
    ELSE LET content == f[output_filepath].value
         IN IF ~IsDict(content) THEN [status |-> "nolist", content |-> <<>>]
            ELSE IF "configurations" \notin DOMAIN content
                    \/ ~IsList(content.configurations)
                 THEN [status |-> "nolist", content |-> <<>>]
            ELSE [status |-> "ok", content |-> content]

\* The call: the file system after it, whether the file was written, how many
\* times it was opened for reading, and how the call ended.
update_c_cpp_properties(f, new_data, output_filepath, config_name) ==
    LET loaded == LoadDocument(f, output_filepath)
        opened == IF loaded.status = "missing" THEN 0 ELSE 1
    IN IF loaded.status # "ok"
       THEN [fs |-> f, wrote |-> FALSE, reads |-> opened, status |-> loaded.status]
       ELSE LET content == loaded.content
                cfgs == content.configurations.list
                hit == FindConfig(cfgs, config_name)
            IN IF hit.kind = "raise"
               THEN [fs |-> f, wrote |-> FALSE, reads |-> opened, status |-> "error"]
               ELSE LET grown == IF hit.kind = "none"
                                 THEN Append(cfgs, NewConfig(config_name))
                                 ELSE cfgs
                        at == IF hit.kind = "none" THEN Len(grown) ELSE hit.idx
                        merged == [grown EXCEPT ![at] = SetLists(grown[at], new_data)]
                        written == SetItem(content, "configurations", JList(merged))
                    IN [fs |-> WriteJson(f, output_filepath, written),
                        wrote |-> TRUE, reads |-> opened, status |-> "ok"]

(***************************************************************************)
(* generate_vscode_config_from_file: the text functions.                   *)
(***************************************************************************)
Backslash == "\\"
ParentPrefix == <<".", ".", "/">>

\* path.replace('\\', '/')
ReplaceSeparators(path) ==
    [i \in 1..Len(path) |-> IF path[i] = Backslash THEN "/" ELSE path[i]]

StartsWith(s, prefix) ==
    Len(s) >= Len(prefix) /\ SubSeq(s, 1, Len(prefix)) = prefix

\* A plausible bug: 'if' instead of 'while', one prefix is removed.
StripParents_Once(path) ==
    IF StartsWith(path, ParentPrefix) THEN SubSeq(path, 4, Len(path)) ELSE path

\* while path.startswith('../'): path = path[3:]
RECURSIVE StripParents(_)
StripParents(path) ==
    IF StartsWith(path, ParentPrefix)
    THEN StripParents(SubSeq(path, 4, Len(path)))
    ELSE path

normalize_and_clean_path(path) == StripParents(ReplaceSeparators(path))

\* str.split(sep) with a one-character separator: the pieces between the
\* separators, empty pieces included.
RECURSIVE SplitFrom(_, _, _, _, _)
SplitFrom(s, sep, i, piece, pieces) ==
    IF i > Len(s) THEN Append(pieces, piece)
    ELSE IF s[i] = sep THEN SplitFrom(s, sep, i + 1, <<>>, Append(pieces, piece))
    ELSE SplitFrom(s, sep, i + 1, Append(piece, s[i]), pieces)

Split(s, sep) == SplitFrom(s, sep, 1, <<>>, <<>>)

\* The characters str.strip() removes, among those of the model's texts.
Whitespace == {" ", "\t", "\n", "\r"}

RECURSIVE LStrip(_)
LStrip(s) ==
    IF s # <<>> /\ Head(s) \in Whitespace THEN LStrip(Tail(s)) ELSE s

RECURSIVE RStrip(_)
RStrip(s) ==
    IF s # <<>> /\ s[Len(s)] \in Whitespace
    THEN RStrip(SubSeq(s, 1, Len(s) - 1))
    ELSE s

\* A plausible bug: lstrip() instead of strip().
Strip_LeftOnly(s) == LStrip(s)

Strip(s) == RStrip(LStrip(s))

NonEmptyStripped(p) == Strip(p) # <<>>

\* A field of the project file: the node may be absent; an empty s is a node
\* without text.  The lists the two comprehensions build.
ExtractIncludePath(path_node) ==
    IF path_node.present /\ path_node.s # <<>>
    THEN LET kept == SelectSeq(Split(path_node.s, ";"), NonEmptyStripped)
         IN [i \in 1..Len(kept) |-> normalize_and_clean_path(Strip(kept[i]))]
    ELSE <<>>

ExtractDefines(define_node) ==
    IF define_node.present /\ define_node.s # <<>>
    THEN LET kept == SelectSeq(Split(define_node.s, ","), NonEmptyStripped)
         IN [i \in 1..Len(kept) |-> Strip(kept[i])]
    ELSE <<>>

\* The project file as the XML parser sees it: missing, not XML, without a
\* <Cads> node, or with one and its two fields.  The result None is ok = FALSE.
generate_vscode_config_from_file(project) ==
    IF project.status # "ok"
    THEN [ok |-> FALSE, includePath |-> <<>>, defines |-> <<>>]
    ELSE [ok |-> TRUE,
          includePath |-> ExtractIncludePath(project.include),
          defines |-> ExtractDefines(project.define)]

(***************************************************************************)
(* The documents the calls are tried on, and their arguments.              *)
(***************************************************************************)
SeqsUpTo(S, n) == UNION {[1..k -> S] : k \in 0..n}

Old == <<"o", "l", "d">>
Inc == <<"i", "n", "c">>
Def == <<"D">>

EntryPool ==
    {[name |-> n, compilerPath |-> "gcc", includePath |-> <<Old>>,
      defines |-> <<>>, extra |-> "1"] : n \in {"Foo", "Bar"}}
    \cup {[name |-> n] : n \in {"Foo", "Bar"}}
    \cup {[extra |-> "1"], JScalar("s")}

ValuePool ==
    {[configurations |-> JList(c), version |-> 4, env |-> "x"] :
         c \in SeqsUpTo(EntryPool, MaxEntries)}
    \cup {[version |-> 4],
          [configurations |-> JScalar("x"), version |-> 4],
          JScalar("x"),
          JList(<<>>)}

ContentPool ==
    {[valid |-> TRUE, fmt |-> m, value |-> v] : m \in {"dump", "other"}, v \in ValuePool}
    \cup {[valid |-> FALSE, fmt |-> "other", value |-> JScalar("garbage")]}

NoFiles == <<>>
FsPool == {NoFiles} \cup {[p \in {DocPath} |-> c] : c \in ContentPool}

DataPool ==
    {[includePath |-> <<>>, defines |-> <<>>],
     [includePath |-> <<Inc, Inc>>, defines |-> <<Def>>]}
ConfigNames == {"Foo", "Default", "New"}

NoData == [includePath |-> <<>>, defines |-> <<>>]
NoCall ==
    [op |-> "none", flag |-> FALSE, name |-> "", data |-> NoData,
     before |-> NoFiles, wrote |-> FALSE, reads |-> 0, status |-> "none"]

(***************************************************************************)
(* Spec: the two document functions called in any order.                   *)
(***************************************************************************)
Absent == [present |-> FALSE, s |-> <<>>]
NoOut ==
    [fn |-> "none", ok |-> FALSE, includePath |-> <<>>, defines |-> <<>>,
     r |-> <<>>, prev |-> <<>>]

NoArgs == [config_name |-> "", create_default_config |-> FALSE,
           create_editorconfig |-> FALSE]
NoProject == [status |-> "none", stem |-> "", include |-> Absent, define |-> Absent]
NoResult == [ok |-> FALSE, includePath |-> <<>>, defines |-> <<>>]
NoLocals == [uvprojx_path |-> NoProject, config_name |-> "", data |-> NoResult]
NoIo(f) == [calls |-> <<>>, reads |-> 0, writes |-> 0, before |-> f]

RunIdle ==
    /\ pc = "idle"
    /\ args = NoArgs
    /\ files = <<>>
    /\ locals = NoLocals
    /\ io = NoIo(NoFiles)

TextIdle ==
    /\ text = [include |-> Absent, define |-> Absent, path |-> Absent]
    /\ out = NoOut

Init ==
    /\ fs \in FsPool
    /\ last = NoCall
    /\ rep = FALSE
    /\ byEnsure = FALSE
    /\ RunIdle
    /\ TextIdle

Ensure(create_default) ==
    LET r == ensure_vscode_c_cpp_properties(fs, create_default)
    IN /\ fs' = r.fs
       /\ last' = [op |-> "ensure", flag |-> create_default, name |-> "",
                   data |-> NoData, before |-> fs, wrote |-> r.wrote,
                   reads |-> 0, status |-> "ok"]
       /\ rep' = (last.op = "ensure")
       /\ byEnsure' = (byEnsure \/ r.wrote)
       /\ UNCHANGED <<runVars, textVars>>

Merge(new_data, config_name) ==
    LET r == update_c_cpp_properties(fs, new_data, DocPath, config_name)
    IN /\ fs' = r.fs
       /\ last' = [op |-> "merge", flag |-> FALSE, name |-> config_name,
                   data |-> new_data, before |-> fs, wrote |-> r.wrote,
                   reads |-> r.reads, status |-> r.status]
       /\ rep' = (last.op = "merge" /\ last.name = config_name
                  /\ last.data = new_data)
       /\ UNCHANGED <<byEnsure, runVars, textVars>>

Next ==
    \/ \E create_default \in BOOLEAN : Ensure(create_default)
    \/ \E new_data \in DataPool, config_name \in ConfigNames :
           Merge(new_data, config_name)

Spec == Init /\ [][Next]_vars

(***************************************************************************)
(* Claims about the document functions, checked under Spec.                *)
(***************************************************************************)
Doc(f) == f[DocPath].value
Cfgs(f) == Doc(f).configurations.list
OwnedKeys == {"includePath", "defines"}

Named(e, n) == IsDict(e) /\ "name" \in DOMAIN e /\ e.name = n
HasNamed(cfgs, n) == \E i \in 1..Len(cfgs) : Named(cfgs[i], n)
FirstNamed(cfgs, n) ==
    CHOOSE i \in 1..Len(cfgs) :
        Named(cfgs[i], n) /\ \A j \in 1..(i - 1) : ~Named(cfgs[j], n)

MergeOk == last.op = "merge" /\ last.status = "ok"

\* C1: a successful merge changes only the includePath and defines fields of
\* the first entry named configName: every other field of that entry, every
\* other entry (later entries of the same name too), their order, and every
\* other top-level key of the document are as they were before the merge.
C1_MergeFrame ==
    MergeOk =>
        LET b == Doc(last.before)
            a == Doc(fs)
            bc == Cfgs(last.before)
            ac == Cfgs(fs)
        IN /\ DOMAIN a = DOMAIN b
           /\ \A k \in DOMAIN b \ {"configurations"} : a[k] = b[k]
           /\ Len(ac) >= Len(bc)
           /\ \A i \in 1..Len(bc) :
                  IF HasNamed(bc, last.name) /\ i = FirstNamed(bc, last.name)
                  THEN /\ DOMAIN ac[i] = DOMAIN bc[i] \cup OwnedKeys
                       /\ \A k \in DOMAIN bc[i] \ OwnedKeys : ac[i][k] = bc[i][k]
                  ELSE ac[i] = bc[i]

\* A merge into the first of two entries of the same name, which changed the file.
C1_Witness ==
    /\ MergeOk
    /\ fs # last.before
    /\ Len(Cfgs(last.before)) = 2
    /\ Named(Cfgs(last.before)[1], last.name)
    /\ Named(Cfgs(last.before)[2], last.name)
    /\ "extra" \in DOMAIN Cfgs(last.before)[1]
    /\ "env" \in DOMAIN Doc(last.before)

\* C2: after a successful merge the first entry named configName holds
\* newData's includePath and defines; the list has grown by exactly one entry,
\* appended at the end with name configName, if and only if no entry had that
\* name before the merge, and otherwise has the length it had.
C2_MergeResult ==
    MergeOk =>
        LET bc == Cfgs(last.before)
            ac == Cfgs(fs)
        IN /\ HasNamed(ac, last.name)
           /\ OwnedKeys \subseteq DOMAIN ac[FirstNamed(ac, last.name)]
           /\ ac[FirstNamed(ac, last.name)].includePath = last.data.includePath
           /\ ac[FirstNamed(ac, last.name)].defines = last.data.defines
           /\ IF HasNamed(bc, last.name)
              THEN Len(ac) = Len(bc)
              ELSE /\ Len(ac) = Len(bc) + 1
                   /\ Named(ac[Len(ac)], last.name)

\* A merge that appended an entry to a list that had entries.
C2_Witness ==
    /\ MergeOk
    /\ ~HasNamed(Cfgs(last.before), last.name)
    /\ Len(Cfgs(last.before)) >= 1
    /\ last.data.includePath # <<>>

Missing(f) == DocPath \notin DOMAIN f
NotJson(f) == ~Missing(f) /\ ~f[DocPath].valid
NoConfigurationsList(f) ==
    /\ ~Missing(f)
    /\ f[DocPath].valid
    /\ \/ ~IsDict(Doc(f))
       \/ "configurations" \notin DOMAIN Doc(f)
       \/ ~IsList(Doc(f).configurations)

\* C3: a merge on a document that is missing, is not valid JSON or has no
\* 'configurations' key holding a list writes nothing: a missing file stays
\* missing and an existing file keeps exactly the content it had.
C3_MergeNoWrite ==
    (/\ last.op = "merge"
     /\ Missing(last.before) \/ NotJson(last.before)
            \/ NoConfigurationsList(last.before))
        => /\ fs = last.before
           /\ ~last.wrote

\* A merge tried on an object whose 'configurations' is not a list.
C3_Witness ==
    /\ last.op = "merge"
    /\ NoConfigurationsList(last.before)
    /\ IsDict(Doc(last.before))
    /\ "configurations" \in DOMAIN Doc(last.before)

\* C4: ensure never overwrites: a document that exists keeps its content
\* whatever it is and whatever createDefault is, so a second call leaves what
\* the first call left, for every pair of createDefault values.
C4_EnsureNeverOverwrites ==
    /\ (last.op = "ensure" /\ ~Missing(last.before))
           => (fs = last.before /\ ~last.wrote)
    /\ (last.op = "ensure" /\ rep) => fs = last.before

\* A second call asking for a Default entry, after a first call that created
\* the document without one.
C4_Witness ==
    /\ last.op = "ensure"
    /\ rep
    /\ last.flag
    /\ byEnsure
    /\ Doc(fs) = Template(FALSE)

\* C5: merge is idempotent: a merge repeated with the same arguments leaves
\* the document the first merge left.
C5_MergeIdempotent ==
    (last.op = "merge" /\ rep) => fs = last.before

\* A repeated successful merge of non-empty lists under a name that the first
\* merge had to append.
C5_Witness ==
    /\ MergeOk
    /\ rep
    /\ last.name = "New"
    /\ last.data.includePath # <<>>
    /\ Len(Cfgs(fs)) >= 2

\* C10: in a document created by ensure, after any sequence of merges no two
\* entries of the configurations list have the same name.
C10_UniqueNames ==
    byEnsure =>
        \A i, j \in 1..Len(Cfgs(fs)) :
            (i # j /\ "name" \in DOMAIN Cfgs(fs)[i] /\ "name" \in DOMAIN Cfgs(fs)[j])
                => Cfgs(fs)[i].name # Cfgs(fs)[j].name

\* A created document with its Default entry merged into and two entries appended.
C10_Witness ==
    /\ byEnsure
    /\ Len(Cfgs(fs)) = 3
    /\ Cfgs(fs)[1].name = "Default"
    /\ Cfgs(fs)[1].includePath # <<>>

(***************************************************************************)
(* SpecText: the text functions applied to bounded texts.                  *)
(***************************************************************************)
PathChars == {Backslash, "/", ".", "a"}
IncludeChars == PathChars \cup {";", " "}
DefineChars == {"a", Backslash, ",", ";", " "}

\* "a\b, a;../," : both separators, blanks, a backslash and a parent prefix.
Sample == <<"a", Backslash, "b", ",", " ", "a", ";", ".", ".", "/", ",">>
SampleField == [present |-> TRUE, s |-> Sample]

Present(t) == [present |-> TRUE, s |-> t]

\* The inputs: an IncludePath text beside the sample Define text, a Define
\* text beside the sample IncludePath text, absent fields, or a path alone.
TextInput ==
    \/ \E k \in 0..MaxTextLen : \E t \in [1..k -> IncludeChars] :
           text = [include |-> Present(t), define |-> SampleField, path |-> Absent]
    \/ \E k \in 0..MaxTextLen : \E t \in [1..k -> DefineChars] :
           text = [include |-> SampleField, define |-> Present(t), path |-> Absent]
    \/ \E f \in {Absent, SampleField} :
           text = [include |-> Absent, define |-> f, path |-> Absent]
    \/ text = [include |-> SampleField, define |-> Absent, path |-> Absent]
    \/ \E k \in 0..MaxPathLen : \E t \in [1..k -> PathChars] :
           text = [include |-> Absent, define |-> Absent, path |-> Present(t)]

DocIdle ==
    /\ fs = NoFiles
    /\ last = NoCall
    /\ rep = FALSE
    /\ byEnsure = FALSE

InitText ==
    /\ TextInput
    /\ out = NoOut
    /\ DocIdle
    /\ RunIdle

Extract ==
    /\ out.fn = "none"
    /\ LET r == generate_vscode_config_from_file(
                    [status |-> "ok", include |-> text.include, define |-> text.define])
       IN out' = [NoOut EXCEPT !.fn = "extract", !.ok = r.ok,
                               !.includePath = r.includePath, !.defines = r.defines]
    /\ UNCHANGED <<text, docVars, runVars>>

Normalize ==
    /\ out.fn = "none"
    /\ text.path.present
    /\ out' = [NoOut EXCEPT !.fn = "normalize",
                            !.r = normalize_and_clean_path(text.path.s)]
    /\ UNCHANGED <<text, docVars, runVars>>

\* The normalizer applied to its own output.
Renormalize ==
    /\ out.fn = "normalize"
    /\ out' = [NoOut EXCEPT !.fn = "renormalize",
                            !.r = normalize_and_clean_path(out.r), !.prev = out.r]
    /\ UNCHANGED <<text, docVars, runVars>>

NextText == Extract \/ Normalize \/ Renormalize

SpecText == InitText /\ [][NextText]_vars

(***************************************************************************)
(* Claims about the text functions, checked under SpecText.                *)
(***************************************************************************)
SepPositions(s, sep) == {i \in 1..Len(s) : s[i] = sep}

\* The k-th maximal run of s without a separator, by the separators' positions.
PieceAt(s, sep, k) ==
    LET starts == {0} \cup SepPositions(s, sep)
        ends == SepPositions(s, sep) \cup {Len(s) + 1}
        p == CHOOSE x \in starts : Cardinality({q \in starts : q < x}) = k - 1
        e == CHOOSE x \in ends : x > p /\ \A q \in ends : q > p => x <= q
    IN SubSeq(s, p + 1, e - 1)

Pieces(s, sep) ==
    [k \in 1..(Cardinality(SepPositions(s, sep)) + 1) |-> PieceAt(s, sep, k)]

Trimmed(p) ==
    LET ink == {i \in 1..Len(p) : p[i] \notin Whitespace}
    IN IF ink = {} THEN <<>>
       ELSE SubSeq(p, CHOOSE i \in ink : \A j \in ink : i <= j,
                      CHOOSE i \in ink : \A j \in ink : i >= j)

NonEmpty(p) == p # <<>>
Survivors(s, sep) ==
    SelectSeq([k \in 1..Len(Pieces(s, sep)) |-> Trimmed(Pieces(s, sep)[k])], NonEmpty)
Normalized(paths) == [k \in 1..Len(paths) |-> normalize_and_clean_path(paths[k])]
HasText(field) == field.present /\ field.s # <<>>

\* C8: includePath is the ';'-separated pieces of the IncludePath text,
\* trimmed, the pieces empty after trimming removed, each survivor normalized,
\* in source order with duplicates kept; defines is the ','-separated pieces of
\* the Define text, trimmed, empties removed, in order, not normalized; an
\* absent or empty field gives an empty list and extraction still succeeds.
C8_Extraction ==
    out.fn = "extract" =>
        /\ out.ok
        /\ out.includePath =
               IF HasText(text.include)
               THEN Normalized(Survivors(text.include.s, ";"))
               ELSE <<>>
        /\ out.defines =
               IF HasText(text.define) THEN Survivors(text.define.s, ",") ELSE <<>>

\* An IncludePath text with blanks to trim, giving the same path twice,
\* and a Define text with a backslash and a parent prefix left as they are.
C8_Witness ==
    /\ out.fn = "extract"
    /\ out.includePath = << <<"a">>, <<"a">> >>
    /\ \E i \in 1..Len(text.include.s) : text.include.s[i] = " "
    /\ out.defines = << <<"a", Backslash, "b">>, <<"a", ";", ".", ".", "/">> >>
    /\ text.define = SampleField

\* C9: the output of the normalizer has no backslash and does not start with
\* '../', and normalizing it again returns it unchanged.
C9_NormalizeIdempotent ==
    /\ out.fn \in {"normalize", "renormalize"} =>
           /\ \A i \in 1..Len(out.r) : out.r[i] # Backslash
           /\ ~StartsWith(out.r, ParentPrefix)
    /\ out.fn = "renormalize" => out.r = out.prev

\* A path with two parent prefixes written with backslashes, normalized twice.
C9_Witness ==
    /\ out.fn = "renormalize"
    /\ text.path.s = <<".", ".", Backslash, ".", ".", Backslash>>
    /\ out.r = <<>>

(***************************************************************************)
(* SpecRun: one run of main().  Creating directories and opening files are *)
(* taken to succeed.                                                       *)
(***************************************************************************)
EditorPath == ".editorconfig"
EDITORCONFIG_CONTENT == [valid |-> FALSE, fmt |-> "other", value |-> JScalar("editorconfig")]

write_editorconfig_file(f) ==
    IF Exists(f, EditorPath) THEN f
    ELSE [x \in DOMAIN f \cup {EditorPath} |->
              IF x = EditorPath THEN EDITORCONFIG_CONTENT ELSE f[x]]

\* None is the project of status "none".
find_first_uvprojx(found) == IF found = <<>> THEN NoProject ELSE found[1]

\* A dict with its two keys is true even when both lists are empty; None is not.
parse_keil_config(uvprojx_path) ==
    LET d == generate_vscode_config_from_file(uvprojx_path)
    IN IF ~d.ok THEN NoResult ELSE d

Project(status, include, define) ==
    [status |-> status, stem |-> "New", include |-> include, define |-> define]
OtherProject ==
    [status |-> "ok", stem |-> "Bar", include |-> Absent, define |-> Absent]
FailingStatus == {"missing", "badxml", "nocads"}
ProjectPool ==
    {Project(st, Absent, Absent) : st \in FailingStatus \cup {"ok"}}
    \cup {Project("ok", SampleField, SampleField)}
FilesPool ==
    {<<>>} \cup {<<q>> : q \in ProjectPool} \cup {<<q, OtherProject>> : q \in ProjectPool}
ArgsPool ==
    [config_name : {"", "Foo"}, create_default_config : BOOLEAN,
     create_editorconfig : BOOLEAN]

InitRun ==
    /\ fs \in FsPool
    /\ last = NoCall
    /\ rep = FALSE
    /\ byEnsure = FALSE
    /\ pc = "start"
    /\ args \in ArgsPool
    /\ files \in FilesPool
    /\ locals = NoLocals
    /\ io = NoIo(fs)
    /\ TextIdle

EditorconfigStep ==
    /\ pc = "start"
    /\ fs' = IF args.create_editorconfig THEN write_editorconfig_file(fs) ELSE fs
    /\ pc' = "locate"
    /\ UNCHANGED <<last, rep, byEnsure, args, files, locals, io, textVars>>

LocateStep ==
    /\ pc = "locate"
    /\ LET uvprojx_path == find_first_uvprojx(files)
       IN IF uvprojx_path.status = "none"
          THEN pc' = "done" /\ UNCHANGED locals
          ELSE /\ pc' = "parse"
               /\ locals' = [locals EXCEPT
                      !.uvprojx_path = uvprojx_path,
                      !.config_name = IF args.config_name # ""
                                      THEN args.config_name
                                      ELSE uvprojx_path.stem]
    /\ UNCHANGED <<docVars, args, files, io, textVars>>

\* A plausible bug: the result of the extraction is not tested.
ParseStep_NoCheck ==
    /\ pc = "parse"
    /\ locals' = [locals EXCEPT !.data = parse_keil_config(locals.uvprojx_path)]
    /\ pc' = "ensure"
    /\ UNCHANGED <<docVars, args, files, io, textVars>>

ParseStep ==
    /\ pc = "parse"
    /\ locals' = [locals EXCEPT !.data = parse_keil_config(locals.uvprojx_path)]
    /\ pc' = IF ~locals'.data.ok THEN "done" ELSE "ensure"
    /\ UNCHANGED <<docVars, args, files, io, textVars>>

EnsureStep ==
    /\ pc = "ensure"
    /\ LET r == ensure_vscode_c_cpp_properties(fs, args.create_default_config)
       IN /\ fs' = r.fs
          /\ io' = [io EXCEPT !.calls = Append(@, "ensure"),
                              !.writes = @ + (IF r.wrote THEN 1 ELSE 0)]
    /\ pc' = "merge"
    /\ UNCHANGED <<last, rep, byEnsure, args, files, locals, textVars>>

MergeStep ==
    /\ pc = "merge"
    /\ LET r == update_c_cpp_properties(fs, locals.data, DocPath, locals.config_name)
       IN /\ fs' = r.fs
          /\ io' = [io EXCEPT !.calls = Append(@, "merge"),
                              !.reads = @ + r.reads,
                              !.writes = @ + (IF r.wrote THEN 1 ELSE 0)]
    /\ pc' = "done"
    /\ UNCHANGED <<last, rep, byEnsure, args, files, locals, textVars>>

NextRun ==
    \/ EditorconfigStep
    \/ LocateStep
    \/ ParseStep
    \/ EnsureStep
    \/ MergeStep

SpecRun == InitRun /\ [][NextRun]_vars

(***************************************************************************)
(* Claims about the run, checked under SpecRun.                            *)
(***************************************************************************)
\* The document alone, whatever other files there are.
Document(f) == [x \in DOMAIN f \cap {DocPath} |-> f[x]]

NothingToDo == files = <<>>
ExtractionFails == files # <<>> /\ files[1].status \in FailingStatus

\* C6: when no project file is found or the extraction fails, the run ends
\* without a call of ensure or merge, the document left absent or as it was.
C6_NoMutationOnFailure ==
    (NothingToDo \/ ExtractionFails) =>
        /\ Document(fs) = Document(io.before)
        /\ io.calls = <<>>
        /\ io.writes = 0
        /\ pc \notin {"ensure", "merge"}

\* A finished run on a project file without a <Cads> node, which wrote
\* .editorconfig and left the document absent.
C6_Witness ==
    /\ pc = "done"
    /\ files # <<>>
    /\ files[1].status = "nocads"
    /\ Exists(fs, EditorPath)
    /\ ~Exists(io.before, EditorPath)
    /\ Missing(fs)

ReachedMerge == pc = "done" /\ io.calls = <<"ensure", "merge">>

\* C7 as stated: a run that reaches the merge step reads the document once
\* and writes it once.
C7_ReadAndWrittenOnce ==
    ReachedMerge => (io.reads = 1 /\ io.writes = 1)

\* The merge of config name n into the document of f succeeds.
Mergeable(f, n) ==
    /\ ~Missing(f)
    /\ ~NotJson(f)
    /\ ~NoConfigurationsList(f)
    /\ \A i \in 1..Len(Cfgs(f)) :
           IsDict(Cfgs(f)[i]) \/ \E j \in 1..(i - 1) : Named(Cfgs(f)[j], n)

\* C7 amended: a run that reaches the merge step reads the document once; it
\* writes it twice when the document did not exist before the run (ensure,
\* then merge), once when it existed and the merge succeeds, and never when it
\* existed and the merge fails.
C7_ReadOnceWrittenUpToTwice ==
    ReachedMerge =>
        /\ io.reads = 1
        /\ io.writes = IF Missing(io.before) THEN 2
                       ELSE IF Mergeable(io.before, locals.config_name) THEN 1
                       ELSE 0

\* A finished run that created the document and merged into it.
C7_Witness ==
    /\ ReachedMerge
    /\ Missing(io.before)
    /\ io.writes = 2
    /\ io.reads = 1
    /\ Cfgs(fs)[Len(Cfgs(fs))].includePath # <<>>

====
